---- MODULE Spec2Model ----
(***************************************************************************)
(* The Native engine of lib/engine-native/src/engine.rs: a NativeEngine    *)
(* handle is an Arc<Mutex<NativeEngineInner>>; every operation locks the   *)
(* mutex (inner()/inner_mut(): lock().unwrap()) and acts on the inner      *)
(* state.  One action models one whole call, made through one handle.      *)
(*                                                                         *)
(* The crate is built either with or without the cargo feature compiler    *)
(* (the cfg(feature = compiler) items): feature_compiler is the build.     *)
(*                                                                         *)
(* SignatureRegistry (wasmer_vm) and NativeArtifact (crate::NativeArtifact) *)
(* are not part of the sources at hand; they are modelled from the         *)
(* design document (spec.md 3, 4.3, 4.4).                                  *)
(***************************************************************************)
EXTENDS Naturals, Sequences, FiniteSets

VARIABLES
    feature_compiler,   \* the build: TRUE iff compiled with the compiler feature
    engines,            \* Seq of Mutex<NativeEngineInner>: one per constructed Engine
    handles,            \* Seq of NativeEngine handles: handles[h] = index into engines
    last,               \* the last call: [op, h, arg, res]
    issued,             \* history: <<engine, FunctionType, index>> returned by register_signature
    headless_errs,      \* history: <<engine, op, error>> returned by compile/validate
                        \* on an Engine without a compiler
    threads,            \* per thread: where it is in its call and what the call is
    lock,               \* the held mutexes: <<engine, thread>> for every guard alive
    memory,             \* the bytes of the guest memory, by address
    view,               \* the MemoryView<T, NonAtomically> the memory subsystem made
    atomic_views,       \* per thread: the view it got from view.atomically(), if any
    mem_last,           \* the last access through a view: [t, op, index, val]
    stored,             \* history, per element: the value of the last store (or the first value)
    incs,               \* history, per element: the fetch_adds since that store
    pending,            \* the unordered sets that have not reached the memory: <<index, kind>>
    heap,               \* the host values wrapped in ExternRefs: [type, value, strong]
    created,            \* history: the [type, value] each ExternRef was made from
    held,               \* the ExternRef handles the host holds (0 is the null reference)
    table,              \* the funcref table of the guest module: a raw word per slot
    envs,               \* the flag of each Env(Arc<AtomicBool>) made, by Env
    ref_last            \* the last call across the boundary: [op, arg, res, invoked]

engine_vars == <<feature_compiler, engines, handles, last, issued, headless_errs>>
thread_vars == <<threads, lock>>
memory_vars == <<memory, view, atomic_views, mem_last, stored, incs, pending>>
ref_vars == <<heap, created, held, table, envs, ref_last>>

\* What a call made on its own (no other thread in a call) leaves alone.
beside_engine == <<thread_vars, memory_vars, ref_vars>>

vars == <<engine_vars, thread_vars, memory_vars, ref_vars>>

---------------------------------------------------------------------------
(* Bounds of the model. *)

MaxHandles == 2     \* handles (clones) alive at once
MaxLibs == 2        \* libraries an Engine loads
MaxLength == 2      \* elements of a MemoryView
MaxIncs == 2        \* fetch_adds on one element between two stores
MemBytes == 16      \* bytes of guest memory
MaxObjs == 2        \* host values wrapped in ExternRefs
MaxHeld == 2        \* ExternRef handles the host holds at once
MaxEnvs == 2        \* Envs made, each with its func_to_call

---------------------------------------------------------------------------
(* Values. *)

\* wasmer_types::FunctionType: ordered parameter types and ordered result types.
FunctionTypes ==
    { [params |-> <<"i32">>, results |-> <<>>],
      [params |-> <<>>,      results |-> <<"i32">>] }

\* VMSharedSignatureIndex values a caller may ask about.
SigIndices == 0 .. Cardinality(FunctionTypes)

\* wasmer_types::Features: the feature set a full Engine is built with.
FeatureSets == {"default"}

\* Target triples for NativeEngine::new.
Triple_host == "host"
Triples == {"host", "other"}

\* Byte strings handed to validate / compile / deserialize.
\*   wasm   a module valid under the enabled features
\*   so     a shared object produced by a compatible Engine
\*   junk   neither
Bytes == {"wasm", "so", "junk"}

\* Paths handed to deserialize_from_file, and what the file holds.
Paths == {"module.so", "missing"}

\* Executables that may be on the host search path.
Executables == {"clang-11", "clang-10", "clang", "gcc"}

\* The prefixers a user may install: a pure function of the bytes, or one
\* that panics when called.
Prefixers == {"Pure", "Panics"}

---------------------------------------------------------------------------
(* Results of calls. *)

Ok == [tag |-> "Ok"]
Err(kind, msg) == [tag |-> "Err", kind |-> kind, msg |-> msg]
Panic(msg) == [tag |-> "Panic", msg |-> msg]
Some(t) == [tag |-> "Some", ty |-> t]
None == [tag |-> "None"]

\* The three messages of the source about a missing compiler (the backquotes
\* of the source text are left out).
MsgHeadlessExecuteOnly ==
    "The NativeEngine is operating in headless mode, so it can only execute already compiled Modules."
MsgHeadlessCannotCompile ==
    "The NativeEngine is operating in headless mode, so it cannot compile a module."
MsgNoCompilerSupport ==
    "The NativeEngine is not compiled with compiler support, which is required for validating"

\* The panic messages of find_linker, and of lock().unwrap() on a poisoned mutex.
MsgNeedLinker(is_cross_compiling) ==
    IF is_cross_compiling
    THEN "Need at least one of clang-11, clang-10, or clang installed in order to use NativeEngine when cross-compiling"
    ELSE "Need gcc installed in order to use NativeEngine when not cross-compiling"
\* (A backquote cannot be written in a string here: the source text has
\* them around Result::unwrap() and around Err.)
MsgPoisoned == "called Result::unwrap() on an Err value: PoisonError { .. }"
MsgPrefixerPanicked == "prefixer panicked"

---------------------------------------------------------------------------
(* Linker. *)

Linkers == {"None", "Clang11", "Clang10", "Clang", "Gcc"}

executable(linker) ==
    CASE linker = "None"    -> ""
      [] linker = "Clang11" -> "clang-11"
      [] linker = "Clang10" -> "clang-10"
      [] linker = "Clang"   -> "clang"
      [] linker = "Gcc"     -> "gcc"

\* which::which(name).is_ok(): the executable is on the search path.
which(name, path) == name \in path

\* The ordered candidates of find_linker.
possibilities(is_cross_compiling) ==
    IF is_cross_compiling THEN <<"Clang11", "Clang10", "Clang">> ELSE <<"Gcc">>

\* Mutant: the last present candidate instead of the first.
find_linker_last(is_cross_compiling, path) ==
    LET present == SelectSeq(possibilities(is_cross_compiling),
                             LAMBDA l : which(executable(l), path))
    IN  IF present = <<>>
        THEN Panic(MsgNeedLinker(is_cross_compiling))
        ELSE [tag |-> "Linker", linker |-> present[Len(present)]]

\* Mutant: no candidate present gives Linker::None instead of a panic.
find_linker_or_none(is_cross_compiling, path) ==
    LET present == SelectSeq(possibilities(is_cross_compiling),
                             LAMBDA l : which(executable(l), path))
    IN  IF present = <<>>
        THEN [tag |-> "Linker", linker |-> "None"]
        ELSE [tag |-> "Linker", linker |-> Head(present)]

\* possibilities.iter().filter(present).next().unwrap_or_else(panic):
\* the first present candidate, or a panic.
find_linker(is_cross_compiling, path) ==
    LET present == SelectSeq(possibilities(is_cross_compiling),
                             LAMBDA l : which(executable(l), path))
    IN  IF present = <<>>
        THEN Panic(MsgNeedLinker(is_cross_compiling))
        ELSE [tag |-> "Linker", linker |-> Head(present)]

---------------------------------------------------------------------------
(* SignatureRegistry: interns FunctionTypes into indices.  The registry is  *)
(* the sequence of the types in registration order; the index of a type is *)
(* its position, counted from 0.                                           *)

SignatureRegistry_new == <<>>

SignatureRegistry_index(reg, func_type) ==
    IF \E i \in 1 .. Len(reg) : reg[i] = func_type
    THEN (CHOOSE i \in 1 .. Len(reg) : reg[i] = func_type) - 1
    ELSE Len(reg)

\* register: look the type up, insert it under the next index when absent.
SignatureRegistry_register(reg, func_type) ==
    [index |-> SignatureRegistry_index(reg, func_type),
     reg   |-> IF \E i \in 1 .. Len(reg) : reg[i] = func_type
               THEN reg
               ELSE Append(reg, func_type)]

SignatureRegistry_lookup(reg, sig) ==
    IF sig < Len(reg) THEN Some(reg[sig + 1]) ELSE None

---------------------------------------------------------------------------
(* External collaborators. *)

\* Compiler::validate_module(features, data).
validate_module(features, data) ==
    IF data = "wasm" /\ features \in FeatureSets
    THEN Ok
    ELSE Err("Validate", "invalid module")

\* The dynamic loader accepts the bytes as a shared object of this target.
IsSharedObject(bytes) == bytes = "so"

\* The file system: the bytes of a file, or no file.
ReadFile(path) ==
    IF path = "module.so" THEN Some("so") ELSE None

\* A pure prefixer: a deterministic function of the module bytes.
PurePrefix(bytes) == "p_" \o bytes

---------------------------------------------------------------------------
(* NativeEngineInner. *)

NativeEngineInner(compiler, features, is_cross_compiling, linker) ==
    [compiler           |-> compiler,
     signatures         |-> SignatureRegistry_new,
     prefixer           |-> "None",
     features           |-> features,
     is_cross_compiling |-> is_cross_compiling,
     linker             |-> linker,
     libraries          |-> <<>>]

\* Mutant: the check for a missing compiler is left out.
compiler_unchecked(inner) == Ok

\* compiler(): the compiler, or the headless error.
compiler(inner) ==
    IF ~inner.compiler
    THEN Err("Codegen", MsgHeadlessExecuteOnly)
    ELSE Ok

\* get_prefix(bytes): the answer of the prefixer, the empty string without
\* one.  A prefixer that panics unwinds through the caller.
get_prefix(inner, bytes) ==
    CASE inner.prefixer = "Pure"   -> [tag |-> "String", str |-> PurePrefix(bytes)]
      [] inner.prefixer = "Panics" -> Panic(MsgPrefixerPanicked)
      [] OTHER                     -> [tag |-> "String", str |-> ""]

\* Mutant: validate goes to validate_module without asking for the compiler.
NativeEngineInner_validate_unchecked(inner, data) ==
    validate_module(inner.features, data)

\* validate(data), in the build with the compiler feature and in the one without.
NativeEngineInner_validate(inner, data) ==
    IF feature_compiler
    THEN IF compiler(inner).tag = "Err"
         THEN compiler(inner)
         ELSE validate_module(inner.features, data)
    ELSE Err("Validate", MsgNoCompilerSupport)

\* Mutant: the library is inserted at the front of the list.
add_library_front(inner, library) ==
    [inner EXCEPT !.libraries = <<library>> \o @]

add_library(inner, library) ==
    [inner EXCEPT !.libraries = Append(@, library)]

---------------------------------------------------------------------------
(* NativeArtifact: the compile and the deserialize pipelines (spec.md 4.3,  *)
(* 4.4).  Each works on the locked inner state of the Engine: eng is the    *)
(* mutex, [poisoned, inner].  A panic while the lock is held poisons the    *)
(* mutex.  ext is what the external compiler, linker and loader do: the set *)
(* of the external steps that fail when the pipeline gets to them.          *)

ExternalSteps == {"codegen", "link", "load"}

\* No step fails; one fails; two fail, so that the earlier one decides.
ExternalOutcomes == {{}, {"load"}, {"codegen", "link"}, {"link", "load"}}

\* What the external steps can do with a binary: anything with a module;
\* bytes that are no module the compiler cannot compile.
ExternalOutcomesOf(binary) ==
    IF binary = "wasm" THEN ExternalOutcomes ELSE {{"codegen"}}

Mutex(inner) == [poisoned |-> FALSE, inner |-> inner]

\* Mutant: the library is loaded before the linker is looked at.
NativeArtifact_new_load_first(eng, binary, ext) ==
    IF eng.poisoned THEN [res |-> Panic(MsgPoisoned), eng |-> eng]
    ELSE
    LET inner    == eng.inner
        valid    == NativeEngineInner_validate(inner, binary)
        prefix   == get_prefix(inner, binary)
        library  == [from |-> "compile", data |-> binary]
    IN  IF valid.tag = "Err" THEN [res |-> valid, eng |-> eng]
        ELSE IF "codegen" \in ext
        THEN [res |-> Err("Codegen", "the compiler failed"), eng |-> eng]
        ELSE IF prefix.tag = "Panic"
        THEN [res |-> prefix, eng |-> [eng EXCEPT !.poisoned = TRUE]]
        ELSE IF "load" \in ext
        THEN [res |-> Err("Load", "the library could not be loaded"), eng |-> eng]
        ELSE IF "link" \in ext
        THEN [res |-> Err("Link", "the linker failed"), eng |-> eng]
        ELSE [res |-> [tag |-> "Ok",
                       artifact |-> [prefix  |-> prefix.str,
                                     library |-> Len(inner.libraries) + 1]],
              eng |-> [eng EXCEPT !.inner = add_library(inner, library)]]

NativeArtifact_new(eng, binary, ext) ==
    IF eng.poisoned THEN [res |-> Panic(MsgPoisoned), eng |-> eng]
    ELSE
    LET inner    == eng.inner
        valid    == NativeEngineInner_validate(inner, binary)
        prefix   == get_prefix(inner, binary)
        library  == [from |-> "compile", data |-> binary]
    IN  IF valid.tag = "Err" THEN [res |-> valid, eng |-> eng]
        ELSE IF "codegen" \in ext
        THEN [res |-> Err("Codegen", "the compiler failed"), eng |-> eng]
        ELSE IF prefix.tag = "Panic"
        THEN [res |-> prefix, eng |-> [eng EXCEPT !.poisoned = TRUE]]
        ELSE IF "link" \in ext
        THEN [res |-> Err("Link", "the linker failed"), eng |-> eng]
        ELSE IF "load" \in ext
        THEN [res |-> Err("Load", "the library could not be loaded"), eng |-> eng]
        ELSE [res |-> [tag |-> "Ok",
                       artifact |-> [prefix  |-> prefix.str,
                                     library |-> Len(inner.libraries) + 1]],
              eng |-> [eng EXCEPT !.inner = add_library(inner, library)]]

NativeArtifact_deserialize(eng, bytes) ==
    IF eng.poisoned THEN [res |-> Panic(MsgPoisoned), eng |-> eng]
    ELSE IF IsSharedObject(bytes)
    THEN [res |-> [tag |-> "Ok",
                   artifact |-> [prefix  |-> "",
                                 library |-> Len(eng.inner.libraries) + 1]],
          eng |-> [eng EXCEPT !.inner =
                      add_library(eng.inner, [from |-> "deserialize", data |-> bytes])]]
    ELSE [res |-> Err("Deserialize", "not a shared object of this target"), eng |-> eng]

NativeArtifact_deserialize_from_file(eng, path) ==
    IF eng.poisoned THEN [res |-> Panic(MsgPoisoned), eng |-> eng]
    ELSE IF ReadFile(path).tag = "None"
    THEN [res |-> Err("Deserialize", "the file cannot be read"), eng |-> eng]
    ELSE NativeArtifact_deserialize(eng, ReadFile(path).ty)

---------------------------------------------------------------------------
(* NativeEngine: the calls. *)

Call(op, h, arg, res) == [op |-> op, h |-> h, arg |-> arg, res |-> res]

\* The record of a compile call: with what the external steps did.
CompileCall(h, binary, ext, res) ==
    [op |-> "compile", h |-> h, arg |-> binary, ext |-> ext, res |-> res]

\* The engine a handle points to (the Arc).
EngineOf(h) == handles[h]

\* The history of the errors compile and validate give without a compiler.
NoteHeadless(e, op, res) ==
    IF ~engines[e].inner.compiler /\ res.tag = "Err"
    THEN headless_errs \cup {<<e, op, res>>}
    ELSE headless_errs

\* The threads of the program, and a thread that is in no call.
Threads == {"t1", "t2"}

Idle == [pc |-> "idle", op |-> "none", h |-> 0, arg |-> "", ext |-> {}, seen |-> <<>>]

\* No view: before the memory subsystem has made one.
NoView == [ptr |-> 0, length |-> 0, elem |-> "none", atomicity |-> "none"]

NoAccess == [t |-> "none", op |-> "none", index |-> 0, val |-> <<>>]

InitThreadVars ==
    /\ threads = [t \in Threads |-> Idle]
    /\ lock = {}

InitMemoryVars ==
    /\ memory = <<>>
    /\ view = NoView
    /\ atomic_views = [t \in Threads |-> NoView]
    /\ mem_last = NoAccess
    /\ stored = <<>>
    /\ incs = <<>>
    /\ pending = {}

\* No call across the boundary made yet.
NoRefCall == [op |-> "none", arg |-> <<>>, res |-> <<>>, invoked |-> <<>>]

\* No module instantiated: no table, no ExternRef and no Env made.
InitRefVars ==
    /\ heap = <<>>
    /\ created = <<>>
    /\ held = <<>>
    /\ table = <<>>
    /\ envs = <<>>
    /\ ref_last = NoRefCall

InitBeside == InitThreadVars /\ InitMemoryVars /\ InitRefVars

\* No Engine constructed yet, in either build.
InitEngineVars ==
    /\ feature_compiler \in BOOLEAN
    /\ engines = <<>>
    /\ handles = <<>>
    /\ last = Call("none", 0, "", None)
    /\ issued = {}
    /\ headless_errs = {}

Init == InitEngineVars /\ InitBeside

\* NativeEngine::new(compiler, target, features), with the search path of
\* the host at the time of the call.  Only in the build with the compiler.
New(triple, features, path) ==
    /\ feature_compiler
    /\ LET is_cross_compiling == triple # Triple_host
           linker == find_linker(is_cross_compiling, path)
           arg == [triple |-> triple, features |-> features, path |-> path]
       IN  IF linker.tag = "Panic"
           THEN /\ last' = Call("new", 0, arg, linker)
                /\ UNCHANGED <<engines, handles>>
           ELSE /\ engines' = Append(engines,
                        Mutex(NativeEngineInner(TRUE, features,
                                                is_cross_compiling, linker.linker)))
                /\ handles' = Append(handles, Len(engines) + 1)
                /\ last' = Call("new", 0, arg,
                                [tag |-> "Engine", h |-> Len(handles) + 1])
    /\ UNCHANGED <<feature_compiler, issued, headless_errs>>

\* Mutant: a headless Engine is given the linker of a native build.
headless_with_gcc ==
    /\ engines' = Append(engines,
            Mutex(NativeEngineInner(FALSE, "default", FALSE, "Gcc")))
    /\ handles' = Append(handles, Len(engines) + 1)
    /\ last' = Call("headless", 0, "", [tag |-> "Engine", h |-> Len(handles) + 1])
    /\ UNCHANGED <<feature_compiler, issued, headless_errs>>

\* NativeEngine::headless().
headless ==
    /\ engines' = Append(engines,
            Mutex(NativeEngineInner(FALSE, "default", FALSE, "None")))
    /\ handles' = Append(handles, Len(engines) + 1)
    /\ last' = Call("headless", 0, "", [tag |-> "Engine", h |-> Len(handles) + 1])
    /\ UNCHANGED <<feature_compiler, issued, headless_errs>>

\* The handles that share the inner state of handle h.
HandlesOf(h) == { k \in DOMAIN handles : handles[k] = handles[h] }

\* Mutant: a clone that copies the inner state into an Engine of its own.
cloned_deep(h) ==
    /\ Cardinality(HandlesOf(h)) < MaxHandles
    /\ engines' = Append(engines, engines[handles[h]])
    /\ handles' = Append(handles, Len(engines) + 1)
    /\ last' = Call("cloned", h, "", [tag |-> "Engine", h |-> Len(handles) + 1])
    /\ UNCHANGED <<feature_compiler, issued, headless_errs>>

\* Clone (derived) and cloned(): another handle to the same inner state.
\* At most MaxHandles handles of one Engine are alive at once.
cloned(h) ==
    /\ Cardinality(HandlesOf(h)) < MaxHandles
    /\ handles' = Append(handles, handles[h])
    /\ last' = Call("cloned", h, "", [tag |-> "Engine", h |-> Len(handles) + 1])
    /\ UNCHANGED <<feature_compiler, engines, issued, headless_errs>>

\* A call that found the mutex poisoned: lock().unwrap() panics.
PoisonedCall(op, h, arg) ==
    /\ last' = Call(op, h, arg, Panic(MsgPoisoned))
    /\ UNCHANGED <<feature_compiler, engines, handles, issued, headless_errs>>

set_deterministic_prefixer(h, prefixer) ==
    LET e == EngineOf(h) IN
    IF engines[e].poisoned THEN PoisonedCall("set_deterministic_prefixer", h, prefixer)
    ELSE /\ engines' = [engines EXCEPT ![e].inner.prefixer = prefixer]
         /\ last' = Call("set_deterministic_prefixer", h, prefixer, Ok)
         /\ UNCHANGED <<feature_compiler, handles, issued, headless_errs>>

\* Mutant: every call inserts the type under a new index.
register_signature_always_inserts(h, func_type) ==
    LET e == EngineOf(h)
        reg == engines[e].inner.signatures
    IN  IF engines[e].poisoned THEN PoisonedCall("register_signature", h, func_type)
        ELSE /\ engines' = [engines EXCEPT ![e].inner.signatures = Append(reg, func_type)]
             /\ last' = Call("register_signature", h, func_type,
                             [tag |-> "Index", index |-> Len(reg)])
             /\ issued' = issued \cup {<<e, func_type, Len(reg)>>}
             /\ UNCHANGED <<feature_compiler, handles, headless_errs>>

\* Mutant: the type is registered in a copy of the registry, which is dropped.
register_signature_on_copy(h, func_type) ==
    LET e == EngineOf(h)
        r == SignatureRegistry_register(engines[e].inner.signatures, func_type)
    IN  IF engines[e].poisoned THEN PoisonedCall("register_signature", h, func_type)
        ELSE /\ last' = Call("register_signature", h, func_type,
                             [tag |-> "Index", index |-> r.index])
             /\ issued' = issued \cup {<<e, func_type, r.index>>}
             /\ UNCHANGED <<feature_compiler, engines, handles, headless_errs>>

register_signature(h, func_type) ==
    LET e == EngineOf(h)
        r == SignatureRegistry_register(engines[e].inner.signatures, func_type)
    IN  IF engines[e].poisoned THEN PoisonedCall("register_signature", h, func_type)
        ELSE /\ engines' = [engines EXCEPT ![e].inner.signatures = r.reg]
             /\ last' = Call("register_signature", h, func_type,
                             [tag |-> "Index", index |-> r.index])
             /\ issued' = issued \cup {<<e, func_type, r.index>>}
             /\ UNCHANGED <<feature_compiler, handles, headless_errs>>

lookup_signature(h, sig) ==
    LET e == EngineOf(h) IN
    IF engines[e].poisoned THEN PoisonedCall("lookup_signature", h, sig)
    ELSE /\ last' = Call("lookup_signature", h, sig,
                         SignatureRegistry_lookup(engines[e].inner.signatures, sig))
         /\ UNCHANGED <<feature_compiler, engines, handles, issued, headless_errs>>

validate(h, binary) ==
    LET e == EngineOf(h)
        res == NativeEngineInner_validate(engines[e].inner, binary)
    IN  IF engines[e].poisoned THEN PoisonedCall("validate", h, binary)
        ELSE /\ last' = Call("validate", h, binary, res)
             /\ headless_errs' = NoteHeadless(e, "validate", res)
             /\ UNCHANGED <<feature_compiler, engines, handles, issued>>

\* compile(binary, tunables), in the build with the compiler feature (the
\* pipeline of NativeArtifact) and in the one without (an error, no lock).
compile(h, binary, ext) ==
    LET e == EngineOf(h)
        r == IF feature_compiler
             THEN NativeArtifact_new(engines[e], binary, ext)
             ELSE [res |-> Err("Codegen", MsgHeadlessCannotCompile), eng |-> engines[e]]
    IN  /\ Len(r.eng.inner.libraries) <= MaxLibs
        /\ engines' = [engines EXCEPT ![e] = r.eng]
        /\ last' = CompileCall(h, binary, ext, r.res)
        /\ headless_errs' = NoteHeadless(e, "compile", r.res)
        /\ UNCHANGED <<feature_compiler, handles, issued>>

\* Mutant: deserialize asks for the compiler first, as compile does.
deserialize_needs_compiler(h, bytes) ==
    LET e == EngineOf(h)
        r == IF compiler(engines[e].inner).tag = "Err"
             THEN [res |-> Err("Deserialize", MsgHeadlessExecuteOnly), eng |-> engines[e]]
             ELSE NativeArtifact_deserialize(engines[e], bytes)
    IN  /\ Len(r.eng.inner.libraries) <= MaxLibs
        /\ engines' = [engines EXCEPT ![e] = r.eng]
        /\ last' = Call("deserialize", h, bytes, r.res)
        /\ UNCHANGED <<feature_compiler, handles, issued, headless_errs>>

deserialize(h, bytes) ==
    LET e == EngineOf(h)
        r == NativeArtifact_deserialize(engines[e], bytes)
    IN  /\ Len(r.eng.inner.libraries) <= MaxLibs
        /\ engines' = [engines EXCEPT ![e] = r.eng]
        /\ last' = Call("deserialize", h, bytes, r.res)
        /\ UNCHANGED <<feature_compiler, handles, issued, headless_errs>>

deserialize_from_file(h, file_ref) ==
    LET e == EngineOf(h)
        r == NativeArtifact_deserialize_from_file(engines[e], file_ref)
    IN  /\ Len(r.eng.inner.libraries) <= MaxLibs
        /\ engines' = [engines EXCEPT ![e] = r.eng]
        /\ last' = Call("deserialize_from_file", h, file_ref, r.res)
        /\ UNCHANGED <<feature_compiler, handles, issued, headless_errs>>

\* One Engine and its clones: the Engine is constructed once, full or
\* headless, and every later call goes through one of its handles.
Next ==
    \/ \E triple \in Triples, features \in FeatureSets, path \in SUBSET Executables :
            engines = <<>> /\ New(triple, features, path) /\ UNCHANGED beside_engine
    \/ engines = <<>> /\ headless /\ UNCHANGED beside_engine
    \/ \E h \in DOMAIN handles : cloned(h) /\ UNCHANGED beside_engine
    \/ \E h \in DOMAIN handles, prefixer \in Prefixers :
            set_deterministic_prefixer(h, prefixer) /\ UNCHANGED beside_engine
    \/ \E h \in DOMAIN handles, func_type \in FunctionTypes :
            register_signature(h, func_type) /\ UNCHANGED beside_engine
    \/ \E h \in DOMAIN handles, sig \in SigIndices :
            lookup_signature(h, sig) /\ UNCHANGED beside_engine
    \/ \E h \in DOMAIN handles, binary \in Bytes :
            validate(h, binary) /\ UNCHANGED beside_engine
    \/ \E h \in DOMAIN handles, binary \in Bytes :
            \E ext \in ExternalOutcomesOf(binary) :
                compile(h, binary, ext) /\ UNCHANGED beside_engine
    \/ \E h \in DOMAIN handles, bytes \in Bytes :
            deserialize(h, bytes) /\ UNCHANGED beside_engine
    \/ \E h \in DOMAIN handles, file_ref \in Paths :
            deserialize_from_file(h, file_ref) /\ UNCHANGED beside_engine

Spec == Init /\ [][Next]_vars

\* Two separately constructed Engines and their clones.  The second Engine
\* is constructed at any time after the first; the calls are those that
\* touch what handles could share: the registry, the prefixer, the libraries.
SeparateEngines == {"first", "second"}

NextTwo ==
    \/ /\ Len(engines) < Cardinality(SeparateEngines)
       /\ New(Triple_host, "default", {"gcc"})
       /\ UNCHANGED beside_engine
    \/ Len(engines) < Cardinality(SeparateEngines) /\ headless /\ UNCHANGED beside_engine
    \/ \E h \in DOMAIN handles :
            Len(handles) <= MaxHandles /\ cloned(h) /\ UNCHANGED beside_engine
    \/ \E h \in DOMAIN handles :
            set_deterministic_prefixer(h, "Pure") /\ UNCHANGED beside_engine
    \/ \E h \in DOMAIN handles, func_type \in FunctionTypes :
            register_signature(h, func_type) /\ UNCHANGED beside_engine
    \/ \E h \in DOMAIN handles : lookup_signature(h, 0) /\ UNCHANGED beside_engine
    \/ \E h \in DOMAIN handles :
            /\ engines[handles[h]].inner.libraries = <<>>
            /\ compile(h, "wasm", {})
            /\ UNCHANGED beside_engine

SpecTwo == Init /\ [][NextTwo]_vars

---------------------------------------------------------------------------
(* Calls from several threads.  A call is three steps of its thread: the    *)
(* call is made (ThreadCall), the mutex of the inner state is taken         *)
(* (ThreadLock: inner() / inner_mut()), and the body runs on the locked     *)
(* state and the guard is dropped on return or on unwinding (ThreadRun).    *)
(* compile in the build without the compiler feature takes no lock.         *)

\* The handle a thread calls through: the Engine, and a clone of it.
ThreadHandle(t) == IF t = "t1" THEN 1 ELSE 2

\* The calls a thread makes.
ThreadCalls ==
    { [op |-> "register_signature", arg |-> t, ext |-> {}] : t \in FunctionTypes }
    \cup { [op |-> "lookup_signature", arg |-> 0, ext |-> {}],
           [op |-> "validate", arg |-> "wasm", ext |-> {}],
           [op |-> "compile", arg |-> "wasm", ext |-> {}],
           [op |-> "deserialize", arg |-> "so", ext |-> {}],
           [op |-> "deserialize_from_file", arg |-> "module.so", ext |-> {}] }

\* Whether the body of the call locks the inner state: all do, but compile
\* in the build without the compiler feature.
TakesLock(op) == ~(op = "compile" /\ ~feature_compiler)

\* The mutex of Engine e is held by nobody.
Unlocked(e) == \A x \in lock : x[1] # e

ThreadCall(t, c) ==
    /\ threads[t].pc = "idle"
    /\ threads' = [threads EXCEPT ![t] =
            [pc |-> "called", op |-> c.op, h |-> ThreadHandle(t),
             arg |-> c.arg, ext |-> c.ext, seen |-> <<>>]]
    /\ UNCHANGED <<engine_vars, lock, memory_vars, ref_vars>>

\* Mutant: lock() that does not wait for the holder.
inner_no_wait(t) ==
    LET e == EngineOf(threads[t].h) IN
    /\ threads[t].pc = "called"
    /\ TakesLock(threads[t].op)
    /\ lock' = lock \cup {<<e, t>>}
    /\ threads' = [threads EXCEPT ![t].pc = "locked", ![t].seen = <<engines[e]>>]
    /\ UNCHANGED <<engine_vars, memory_vars, ref_vars>>

\* inner() / inner_mut(): self.inner.lock(), which blocks while another
\* thread holds the mutex.  The guard gives the inner state as it is now.
inner(t) ==
    LET e == EngineOf(threads[t].h) IN
    /\ threads[t].pc = "called"
    /\ TakesLock(threads[t].op)
    /\ Unlocked(e)
    /\ lock' = lock \cup {<<e, t>>}
    /\ threads' = [threads EXCEPT ![t].pc = "locked", ![t].seen = <<engines[e]>>]
    /\ UNCHANGED <<engine_vars, memory_vars, ref_vars>>

\* The body of the call, and its return (or unwinding), which drops the guard.
ThreadRun(t) ==
    LET c == threads[t] IN
    /\ \/ c.pc = "locked"
       \/ c.pc = "called" /\ ~TakesLock(c.op)
    /\ \/ c.op = "register_signature" /\ register_signature(c.h, c.arg)
       \/ c.op = "lookup_signature" /\ lookup_signature(c.h, c.arg)
       \/ c.op = "validate" /\ validate(c.h, c.arg)
       \/ c.op = "compile" /\ compile(c.h, c.arg, c.ext)
       \/ c.op = "deserialize" /\ deserialize(c.h, c.arg)
       \/ c.op = "deserialize_from_file" /\ deserialize_from_file(c.h, c.arg)
    /\ threads' = [threads EXCEPT ![t] = Idle]
    /\ lock' = lock \ {<<EngineOf(c.h), t>>}
    /\ UNCHANGED <<memory_vars, ref_vars>>

\* One Engine and a clone of it, as constructed: a full Engine (native
\* target, gcc found) or a headless one, with no prefixer or with one that
\* panics.
InitThreads ==
    /\ feature_compiler \in BOOLEAN
    /\ \E full \in BOOLEAN, prefixer \in {"None", "Panics"} :
            /\ full => feature_compiler
            /\ engines = << [ Mutex(IF full
                                    THEN NativeEngineInner(TRUE, "default", FALSE, "Gcc")
                                    ELSE NativeEngineInner(FALSE, "default", FALSE, "None"))
                              EXCEPT !.inner.prefixer = prefixer ] >>
    /\ handles = <<1, 1>>
    /\ last = Call("cloned", 1, "", [tag |-> "Engine", h |-> 2])
    /\ issued = {}
    /\ headless_errs = {}
    /\ InitBeside

NextThreads ==
    \/ \E t \in Threads, c \in ThreadCalls : ThreadCall(t, c)
    \/ \E t \in Threads : inner(t)
    \/ \E t \in Threads : ThreadRun(t)

SpecThreads == InitThreads /\ [][NextThreads]_vars

---------------------------------------------------------------------------
(* MemoryView: a typed window (pointer and element count) over the guest   *)
(* memory, and its atomic form.  The memory is bytes by address; a value   *)
(* of an element is its bytes, lowest first, so that every width of the    *)
(* source (8 to 64 bits) is computed alike.                                *)

\* The element types with an Atomic impl, and the type each maps to.
AtomicTypes == {"i8", "i16", "i32", "i64", "u8", "u16", "u32", "u64", "f32", "f64"}

Atomic(T) ==
    CASE T = "i8"  -> "AtomicI8"
      [] T = "i16" -> "AtomicI16"
      [] T = "i32" -> "AtomicI32"
      [] T = "i64" -> "AtomicI64"
      [] T = "u8"  -> "AtomicU8"
      [] T = "u16" -> "AtomicU16"
      [] T = "u32" -> "AtomicU32"
      [] T = "u64" -> "AtomicU64"
      [] T = "f32" -> "AtomicU32"
      [] T = "f64" -> "AtomicU64"

\* The width in bits of an element type, plain or atomic.
Bits(T) ==
    CASE T \in {"i8", "u8", "AtomicI8", "AtomicU8"}            -> 8
      [] T \in {"i16", "u16", "AtomicI16", "AtomicU16"}        -> 16
      [] T \in {"i32", "u32", "f32", "AtomicI32", "AtomicU32"} -> 32
      [] T \in {"i64", "u64", "f64", "AtomicI64", "AtomicU64"} -> 64

\* size_of::<T>() in bytes.
SizeOf(T) == Bits(T) \div 8

\* The addresses the memory subsystem hands out as the start of a view.
Ptrs == {0, 8}

\* The start of the view the threads access atomically.
AtomicPtr == 0

\* MemoryView::new(ptr, length): a non-atomic view; length: u32 as usize
\* keeps the value on every supported target (usize of 32 bits or more).
MemoryView_new(ptr, length, T) ==
    [ptr |-> ptr, length |-> length, elem |-> T, atomicity |-> "NonAtomically"]

\* Mutant: the atomic view starts one element further on.
atomically_relocated(v) ==
    [ptr |-> v.ptr + SizeOf(v.elem), length |-> v.length,
     elem |-> Atomic(v.elem), atomicity |-> "Atomically"]

\* atomically(): the same pointer cast to the atomic type, the same length.
atomically(v) ==
    [ptr |-> v.ptr, length |-> v.length,
     elem |-> Atomic(v.elem), atomicity |-> "Atomically"]

\* Mutant: every index of the slice is its first element.
Deref_first_only(v, index) == v.ptr

\* Deref of a view: slice::from_raw_parts(ptr, length); the address of the
\* element at index (index < length).
Deref(v, index) == v.ptr + index * SizeOf(v.elem)

\* The bytes of the element at an address.
ReadElem(mem, addr, size) == [k \in 1 .. size |-> mem[addr + k - 1]]

WriteElem(mem, addr, val) ==
    [a \in DOMAIN mem |->
        IF a >= addr /\ a < addr + Len(val) THEN val[a - addr + 1] ELSE mem[a]]

\* The values the model writes: all bits clear and all bits set, from which
\* one fetch_add wraps at the width.
Zero(size) == [k \in 1 .. size |-> 0]
AllOnes(size) == [k \in 1 .. size |-> 255]
ValueKinds == {"zero", "ones"}
ValueOf(kind, size) ==
    CASE kind = "zero"  -> Zero(size)
      [] kind = "ones"  -> AllOnes(size)

\* The values written through the non-atomic view.
CellKinds == {"ones"}

\* The elements the threads access (an access is guarded by the length).
Indices == {0, 1}

\* val + 1, wrapping at the width of val: the carry runs from the lowest byte.
RECURSIVE wrapping_add_one(_)
wrapping_add_one(val) ==
    IF val = <<>> THEN <<>>
    ELSE IF Head(val) = 255
         THEN <<0>> \o wrapping_add_one(Tail(val))
         ELSE <<Head(val) + 1>> \o Tail(val)

\* val + n, wrapping at the width of val.
RECURSIVE Increments(_, _)
Increments(val, n) ==
    IF n = 0 THEN val ELSE Increments(wrapping_add_one(val), n - 1)

\* The region of a view lies in the memory (the precondition of new).
InBounds(ptr, length, T) == ptr + length * SizeOf(T) <= MemBytes

\* view.atomically(), called by thread t.
Atomically(t) ==
    /\ view # NoView
    /\ atomic_views[t] = NoView
    /\ atomic_views' = [atomic_views EXCEPT ![t] = atomically(view)]
    /\ UNCHANGED <<memory, view, mem_last, stored, incs, pending>>

\* The values an element takes in the model: each written value and the
\* fetch_adds that may follow it.
Values(size) ==
    { Increments(ValueOf(kind, size), n) : kind \in ValueKinds, n \in 0 .. MaxIncs }

\* view[index].set(value) through the non-atomic view: Deref gives
\* &[Cell<T>] over the same bytes, and Cell::set is a plain write of the
\* element, the same whichever thread makes it (the record of the access
\* names none).  The view carries no locking: ordered tells whether the caller
\* has ordered this access with the accesses of the other threads to the
\* element.  An ordered set writes the element at this step.  An unordered
\* one is a data race, which is undefined behaviour: the write may reach the
\* memory at any later step, after later accesses of either thread and
\* after later sets, with an equal set as one write, or not at all.
Cell_set(index, kind, ordered) ==
    LET addr == Deref(view, index)
        size == SizeOf(view.elem)
    IN  /\ view # NoView
        /\ index < view.length
        /\ mem_last' = [t |-> "any", op |-> "set", index |-> index,
                        val |-> ValueOf(kind, size)]
        /\ IF ordered
           THEN /\ memory' = WriteElem(memory, addr, ValueOf(kind, size))
                /\ stored' = [stored EXCEPT ![index] = kind]
                /\ incs' = [incs EXCEPT ![index] = 0]
                /\ UNCHANGED pending
           ELSE /\ pending' = pending \cup {<<index, kind>>}
                /\ UNCHANGED <<memory, stored, incs>>
        /\ UNCHANGED <<view, atomic_views>>

\* The write of an unordered set reaches the memory: the element holds the
\* value from this step on.
Cell_land(index, kind) ==
    LET addr == Deref(view, index)
        size == SizeOf(view.elem)
    IN  /\ <<index, kind>> \in pending
        /\ pending' = pending \ {<<index, kind>>}
        /\ memory' = WriteElem(memory, addr, ValueOf(kind, size))
        /\ mem_last' = [t |-> "any", op |-> "land", index |-> index,
                        val |-> ValueOf(kind, size)]
        /\ stored' = [stored EXCEPT ![index] = kind]
        /\ incs' = [incs EXCEPT ![index] = 0]
        /\ UNCHANGED <<view, atomic_views>>

\* view[index].get() through the non-atomic view: a plain read of the
\* element.  An ordered get returns the element as it is.  An unordered one
\* is a data race, which is undefined behaviour: the build may return the
\* element as it is now or as it was at any earlier time (a load kept in a
\* register, or hoisted out of a loop), so no value is excluded.
Cell_get(index, ordered) ==
    LET addr == Deref(view, index)
        size == SizeOf(view.elem)
    IN  /\ view # NoView
        /\ index < view.length
        /\ \E val \in Values(size) \cup {ReadElem(memory, addr, size)} :
                /\ ordered => val = ReadElem(memory, addr, size)
                /\ mem_last' = [t |-> "any", op |-> "get", index |-> index, val |-> val]
        /\ UNCHANGED <<memory, view, atomic_views, stored, incs, pending>>

\* AtomicX::fetch_add(1, ordering) on element index of the atomic view of
\* thread t: one indivisible read-modify-write; returns the old value.
fetch_add(t, index) ==
    LET v == atomic_views[t]
        addr == Deref(v, index)
        old == ReadElem(memory, addr, SizeOf(v.elem))
    IN  /\ v # NoView
        /\ index < v.length
        /\ incs[index] < MaxIncs
        /\ memory' = WriteElem(memory, addr, wrapping_add_one(old))
        /\ mem_last' = [t |-> t, op |-> "fetch_add", index |-> index, val |-> old]
        /\ incs' = [incs EXCEPT ![index] = @ + 1]
        /\ UNCHANGED <<view, atomic_views, stored, pending>>

\* AtomicX::store(val, ordering).
store(t, index, kind) ==
    LET v == atomic_views[t]
        addr == Deref(v, index)
    IN  /\ v # NoView
        /\ index < v.length
        /\ memory' = WriteElem(memory, addr, ValueOf(kind, SizeOf(v.elem)))
        /\ mem_last' = [t |-> t, op |-> "store", index |-> index,
                        val |-> ValueOf(kind, SizeOf(v.elem))]
        /\ stored' = [stored EXCEPT ![index] = kind]
        /\ incs' = [incs EXCEPT ![index] = 0]
        /\ UNCHANGED <<view, atomic_views, pending>>

\* AtomicX::load(ordering).
load(t, index) ==
    LET v == atomic_views[t]
        addr == Deref(v, index)
    IN  /\ v # NoView
        /\ index < v.length
        /\ mem_last' = [t |-> t, op |-> "load", index |-> index,
                        val |-> ReadElem(memory, addr, SizeOf(v.elem))]
        /\ UNCHANGED <<memory, view, atomic_views, stored, incs, pending>>

\* The memory subsystem has made a view of some element type over a region
\* of the memory; no thread has an atomic view yet.
InitView ==
    /\ InitEngineVars
    /\ InitThreadVars
    /\ InitRefVars
    /\ memory = [a \in 0 .. MemBytes - 1 |-> 0]
    /\ \E ptr \in Ptrs, length \in 0 .. MaxLength, T \in AtomicTypes :
            /\ InBounds(ptr, length, T)
            /\ view = MemoryView_new(ptr, length, T)
            /\ stored = [i \in 0 .. length - 1 |-> "zero"]
            /\ incs = [i \in 0 .. length - 1 |-> 0]
    /\ atomic_views = [t \in Threads |-> NoView]
    /\ mem_last = NoAccess
    /\ pending = {}

\* The calls of atomically(): the accesses to the elements are steps of
\* SpecAtomic.
NextView ==
    \E t \in Threads : Atomically(t) /\ UNCHANGED <<engine_vars, thread_vars, ref_vars>>

SpecView == InitView /\ [][NextView]_vars

\* A view over a region of a fresh memory, which is all zeros, of one
\* element or of as many as the threads access, and every thread holding the
\* atomic form of it.
InitAtomic ==
    /\ InitEngineVars
    /\ feature_compiler
    /\ InitThreadVars
    /\ InitRefVars
    /\ memory = [a \in 0 .. MemBytes - 1 |-> 0]
    /\ \E length \in 1 .. Cardinality(Indices), T \in AtomicTypes :
            /\ InBounds(AtomicPtr, length, T)
            /\ view = MemoryView_new(AtomicPtr, length, T)
            /\ stored = [i \in 0 .. length - 1 |-> "zero"]
            /\ incs = [i \in 0 .. length - 1 |-> 0]
    /\ atomic_views = [t \in Threads |-> atomically(view)]
    /\ mem_last = NoAccess
    /\ pending = {}

NextAtomic ==
    \/ \E t \in Threads, index \in Indices :
            fetch_add(t, index) /\ UNCHANGED <<engine_vars, thread_vars, ref_vars>>
    \/ \E t \in Threads, index \in Indices, kind \in ValueKinds :
            store(t, index, kind) /\ UNCHANGED <<engine_vars, thread_vars, ref_vars>>
    \/ \E t \in Threads, index \in Indices :
            load(t, index) /\ UNCHANGED <<engine_vars, thread_vars, ref_vars>>
    \/ \E index \in Indices, kind \in CellKinds, ordered \in BOOLEAN :
            Cell_set(index, kind, ordered)
                /\ UNCHANGED <<engine_vars, thread_vars, ref_vars>>
    \/ \E index \in Indices, kind \in CellKinds :
            Cell_land(index, kind) /\ UNCHANGED <<engine_vars, thread_vars, ref_vars>>
    \/ \E index \in Indices, ordered \in BOOLEAN :
            Cell_get(index, ordered)
                /\ UNCHANGED <<engine_vars, thread_vars, ref_vars>>

SpecAtomic == InitAtomic /\ [][NextAtomic]_vars

---------------------------------------------------------------------------
(* Reference types across the boundary of guest and host: the two tests of *)
(* reference_types.rs, each with its own store and instance.  The guest    *)
(* modules and the host functions are those of the tests.  The runtime     *)
(* that carries the values across, the table, the indirect call and the    *)
(* reference counting of ExternRef are not in the source and follow        *)
(* spec.md 3, 4.6 and 5.  On the host a reference is a Value; in the guest *)
(* it is a raw word, 0 for null.                                           *)

\* A function of the store: its code and the Env it was made over (0: none).
Function(name, e) == [name |-> name, env |-> e]
NoFunction == Function("null", 0)

FuncRef(f) == [tag |-> "FuncRef", func |-> f]
FuncRefNull == FuncRef(NoFunction)
ExternRef(id) == [tag |-> "ExternRef", id |-> id]
ExternRefNull == ExternRef(0)
Value_I32(n) == [tag |-> "I32", n |-> n]
Trap(msg) == [tag |-> "Trap", msg |-> msg]

\* FuncRef::is_none, ExternRef::is_null.
is_none(fr) == fr.func = NoFunction
is_null(er) == er.id = 0

\* The dynamic types of the host values.
ExternTypes == {"HashMap<String, String>", "usize"}

\* The table of the funcref module, (table 2 2 funcref): every slot null.
TableSize == 2
FuncRefTable == [slot \in 1 .. TableSize |-> 0]

\* The test a run is: the instance of the funcref module has the table, the
\* instance of the externref module has none.
FuncRefTest == table # <<>>
ExternRefTest == table = <<>>

\* The functions of the store of the funcref test, by index: the import,
\* the two exports, and func_to_call over each Env made.
StoreFuncs(es) ==
    << Function("func_ref_identity", 0), Function("run", 0),
       Function("call_set_value", 0) >>
        \o [e \in 1 .. Len(es) |-> Function("func_to_call", e)]

\* A FuncRef on its way into the guest: the raw word 0 for null, for a
\* function its index in the store.
FuncRef_into_raw(es, fr) ==
    IF is_none(fr)
    THEN 0
    ELSE CHOOSE i \in DOMAIN StoreFuncs(es) : StoreFuncs(es)[i] = fr.func

\* Mutant: no null word: 0 is read as the first function of the store.
FuncRef_from_raw_unchecked(es, raw) ==
    FuncRef(StoreFuncs(es)[IF raw = 0 THEN 1 ELSE raw])

\* A raw word of the guest on its way to the host: null for 0, else the
\* function of the store at that index.
FuncRef_from_raw(es, raw) ==
    IF raw = 0 THEN FuncRefNull ELSE FuncRef(StoreFuncs(es)[raw])

\* The funcrefs the host passes to call_set_value: null, and func_to_call
\* over any Env made.
FuncRefInputs(es) ==
    {FuncRefNull} \cup {FuncRef(Function("func_to_call", e)) : e \in DOMAIN es}

\* The import func_ref_identity: Ok(vec![values[0].clone()]).
func_ref_identity(values) == <<values[1]>>

\* The export run of the funcref module, (call 0 (ref.null func)): the
\* import is called with the null word, made a Value for it; its result
\* goes back into the guest as a word, and out of the export as a Value.
run_func_ref(es) ==
    LET values == <<FuncRef_from_raw(es, 0)>>
        results == func_ref_identity(values)
        raw == FuncRef_into_raw(es, results[1])
    IN  [res |-> <<FuncRef_from_raw(es, raw)>>,
         invoked |-> <<[func |-> Function("func_ref_identity", 0), args |-> values]>>]

\* func_to_call: env.0.store(true); 343.
func_to_call(flag) == [env |-> TRUE, ret |-> 343]

\* table.set: the word is stored in the slot (slots count from 0).
table_set(tbl, slot, raw) == [tbl EXCEPT ![slot + 1] = raw]

\* Mutant: a direct call of the first func_to_call of the store, whatever
\* the slot holds.
call_indirect_first(es, tbl, slot) ==
    IF es = <<>>
    THEN [envs |-> es, invoked |-> <<>>, res |-> Trap("uninitialized element")]
    ELSE LET r == func_to_call(es[1])
         IN  [envs |-> [es EXCEPT ![1] = r.env],
              invoked |-> <<[func |-> Function("func_to_call", 1), args |-> <<>>]>>,
              res |-> <<Value_I32(r.ret)>>]

\* call_indirect at type ret_i32_ty: the function the word in the slot
\* refers to is called, with its own Env, and its i32 is the result.  A
\* null slot, or a function of another type, is no call.
call_indirect(es, tbl, slot) ==
    LET callee == FuncRef_from_raw(es, tbl[slot + 1]).func IN
    IF callee = NoFunction
    THEN [envs |-> es, invoked |-> <<>>, res |-> Trap("uninitialized element")]
    ELSE IF callee.name # "func_to_call"
    THEN [envs |-> es, invoked |-> <<>>, res |-> Trap("indirect call type mismatch")]
    ELSE LET r == func_to_call(es[callee.env])
         IN  [envs |-> [es EXCEPT ![callee.env] = r.env],
              invoked |-> <<[func |-> callee, args |-> <<>>]>>,
              res |-> <<Value_I32(r.ret)>>]

\* The export call_set_value: the funcref goes into the guest as a word,
\* table.set of slot 0, then call_indirect of slot 0.
call_set_value(es, tbl, fr) ==
    LET set == table_set(tbl, 0, FuncRef_into_raw(es, fr))
        r == call_indirect(es, set, 0)
    IN  [table |-> set, envs |-> r.envs, invoked |-> r.invoked, res |-> r.res]

\* The map both get_new_extern_ref imports build.
HelloWorld == [hello |-> "world", color |-> "orange"]

\* The exports of the externref module, and the two ways of calling one:
\* Function::call (values) and NativeFunc::call (typed).
ExportNames == {"run", "run_native", "get_hashmap", "get_hashmap_native"}
Ways == {"dynamic", "native"}

\* What the host wraps on its own: ExternRef::new(value).
HostValues == {[type |-> "usize", value |-> 7]}

\* Mutant: downcast that does not compare the types.
downcast_unchecked(hp, er, T) ==
    IF is_null(er)
    THEN None
    ELSE [tag |-> "Ref", id |-> er.id, value |-> hp[er.id].value]

\* ExternRef::downcast<T>: the wrapped value when its dynamic type is T.
downcast(hp, er, T) ==
    IF is_null(er)
    THEN None
    ELSE IF hp[er.id].type = T
         THEN [tag |-> "Ref", id |-> er.id, value |-> hp[er.id].value]
         ELSE None

\* A new reference-counted value, with one strong reference.
Wrap(obj) == [type |-> obj.type, value |-> obj.value, strong |-> 1]

\* The heap after one more / one less strong reference to id; the value is
\* dropped with the last one.
Retain(hp, id) ==
    IF id = 0 THEN hp ELSE [hp EXCEPT ![id].strong = @ + 1]

Release(hp, id) ==
    IF id = 0 THEN hp
    ELSE IF hp[id].strong = 1
         THEN [hp EXCEPT ![id] = [type |-> "dropped", value |-> "dropped", strong |-> 0]]
         ELSE [hp EXCEPT ![id].strong = @ - 1]

\* An ExternRef on its way into the guest: the raw word 0 for null, else
\* the address of the counted value; the reference moves with it, the count
\* stays.
ExternRef_into_raw(hp, er) == [heap |-> hp, raw |-> er.id]

\* Mutant: the word is also dropped as a reference of its own.
ExternRef_from_raw_unowned(hp, raw) ==
    [heap |-> Release(hp, raw), ref |-> ExternRef(raw)]

\* A raw word of the guest on its way to the host: the reference the word
\* stands for moves into the ExternRef, the count stays.
ExternRef_from_raw(hp, raw) == [heap |-> hp, ref |-> ExternRef(raw)]

\* The import extern_ref_identity: Ok(vec![values[0].clone()]), one more
\* reference to what it was given.
extern_ref_identity(hp, values) ==
    [heap |-> Retain(hp, values[1].id), results |-> <<values[1]>>, made |-> <<>>]

\* The import extern_ref_identity_native: the ExternRef it was given.
extern_ref_identity_native(hp, values) ==
    [heap |-> hp, results |-> values, made |-> <<>>]

\* The imports get_new_extern_ref (VMExternRef::new(inner)) and
\* get_new_extern_ref_native (ExternRef::new(inner)): the map, wrapped.
get_new_extern_ref(hp, values) ==
    LET hashmap == [type |-> "HashMap<String, String>", value |-> HelloWorld]
    IN  [heap |-> Append(hp, Wrap(hashmap)), results |-> <<ExternRef(Len(hp) + 1)>>,
         made |-> <<hashmap>>]

get_new_extern_ref_native(hp, values) ==
    LET hashmap == [type |-> "HashMap<String, String>", value |-> HelloWorld]
    IN  [heap |-> Append(hp, Wrap(hashmap)), results |-> <<ExternRef(Len(hp) + 1)>>,
         made |-> <<hashmap>>]

\* The import each export of the externref module calls, and the words it
\* calls it with: (ref.null extern), or nothing.
ImportOf(name) ==
    CASE name = "run"                -> "extern_ref_identity"
      [] name = "run_native"         -> "extern_ref_identity_native"
      [] name = "get_hashmap"        -> "get_new_extern_ref"
      [] name = "get_hashmap_native" -> "get_new_extern_ref_native"

GuestArgs(name) == IF name \in {"run", "run_native"} THEN <<0>> ELSE <<>>

\* The imports made by Function::new_native: they take their arguments by
\* value; those made by Function::new borrow them.
NativeImports == {"extern_ref_identity_native", "get_new_extern_ref_native"}

HostImport(import, hp, values) ==
    CASE import = "extern_ref_identity"        -> extern_ref_identity(hp, values)
      [] import = "extern_ref_identity_native" -> extern_ref_identity_native(hp, values)
      [] import = "get_new_extern_ref"         -> get_new_extern_ref(hp, values)
      [] import = "get_new_extern_ref_native"  -> get_new_extern_ref_native(hp, values)

\* The guest calls an import: the words become Values, the host function
\* runs, borrowed arguments are dropped after it, and the result goes into
\* the guest as a word.
call_import(hp, import, raws) ==
    LET args == IF raws = <<>>
                THEN [heap |-> hp, values |-> <<>>]
                ELSE LET a == ExternRef_from_raw(hp, raws[1])
                     IN  [heap |-> a.heap, values |-> <<a.ref>>]
        r == HostImport(import, args.heap, args.values)
        after == IF import \in NativeImports \/ args.values = <<>>
                 THEN r.heap
                 ELSE Release(r.heap, args.values[1].id)
        out == ExternRef_into_raw(after, r.results[1])
    IN  [heap |-> out.heap, raw |-> out.raw, made |-> r.made,
         invoked |-> <<[func |-> Function(import, 0), args |-> args.values]>>]

\* An export of the externref module: it calls its import and returns the
\* word it gets, which the runtime makes an ExternRef for the caller.
call_export(hp, name) ==
    LET r == call_import(hp, ImportOf(name), GuestArgs(name))
        back == ExternRef_from_raw(r.heap, r.raw)
    IN  [heap |-> back.heap, ref |-> back.ref, made |-> r.made, invoked |-> r.invoked]

\* What the caller gets: a list of values from Function::call, the typed
\* reference from NativeFunc::call.
Returned_as(way, er) == IF way = "native" THEN er ELSE <<er>>

\* Env(Arc::new(AtomicBool::new(false))) and func_to_call over it.
NewEnv ==
    /\ envs' = Append(envs, FALSE)
    /\ ref_last' = [op |-> "new_env", arg |-> <<>>,
                    res |-> <<FuncRef(Function("func_to_call", Len(envs) + 1))>>,
                    invoked |-> <<>>]
    /\ UNCHANGED <<heap, created, held, table>>

\* instance.exports.get_function(run).call(&[]) on the funcref module.
CallRunFuncRef ==
    LET r == run_func_ref(envs) IN
    /\ ref_last' = [op |-> "run_func_ref", arg |-> <<>>, res |-> r.res,
                    invoked |-> r.invoked]
    /\ UNCHANGED <<heap, created, held, table, envs>>

\* call_set_value.call(&[Value::FuncRef(fr)]).
CallSetValue(fr) ==
    LET r == call_set_value(envs, table, fr) IN
    /\ table' = r.table
    /\ envs' = r.envs
    /\ ref_last' = [op |-> "call_set_value", arg |-> <<fr>>, res |-> r.res,
                    invoked |-> r.invoked]
    /\ UNCHANGED <<heap, created, held>>

\* An export of the externref module called in one of the two ways; the
\* host keeps the reference it gets.
CallExtern(name, way) ==
    LET r == call_export(heap, name) IN
    /\ Len(held) < MaxHeld
    /\ Len(r.heap) <= MaxObjs
    /\ heap' = r.heap
    /\ created' = created \o [i \in DOMAIN r.made |->
                                [type |-> r.made[i].type, value |-> r.made[i].value,
                                 by |-> name]]
    /\ held' = Append(held, r.ref.id)
    /\ ref_last' = [op |-> "call_extern", arg |-> <<name, way>>,
                    res |-> Returned_as(way, r.ref), invoked |-> r.invoked]
    /\ UNCHANGED <<table, envs>>

\* ExternRef::new(value) on the host.
ExternRef_new(obj) ==
    /\ Len(held) < MaxHeld
    /\ Len(heap) < MaxObjs
    /\ heap' = Append(heap, Wrap(obj))
    /\ created' = Append(created, [type |-> obj.type, value |-> obj.value, by |-> "host"])
    /\ held' = Append(held, Len(heap) + 1)
    /\ ref_last' = [op |-> "new", arg |-> <<obj.type>>, res |-> ExternRef(Len(heap) + 1),
                    invoked |-> <<>>]
    /\ UNCHANGED <<table, envs>>

\* Clone of a held ExternRef: one more strong reference.
CloneRef(k) ==
    /\ Len(held) < MaxHeld
    /\ heap' = Retain(heap, held[k])
    /\ held' = Append(held, held[k])
    /\ ref_last' = [op |-> "clone", arg |-> <<k>>, res |-> ExternRef(held[k]),
                    invoked |-> <<>>]
    /\ UNCHANGED <<created, table, envs>>

\* Drop of a held ExternRef.
DropRef(k) ==
    /\ heap' = Release(heap, held[k])
    /\ held' = [j \in 1 .. Len(held) - 1 |-> IF j < k THEN held[j] ELSE held[j + 1]]
    /\ ref_last' = [op |-> "drop", arg |-> <<k>>, res |-> <<>>, invoked |-> <<>>]
    /\ UNCHANGED <<created, table, envs>>

\* er.downcast::<T>() on a held ExternRef.
Downcast(k, T) ==
    /\ ref_last' = [op |-> "downcast", arg |-> <<k, T>>,
                    res |-> downcast(heap, ExternRef(held[k]), T), invoked |-> <<>>]
    /\ UNCHANGED <<heap, created, held, table, envs>>

\* One of the two tests: the funcref module instantiated, with its table,
\* or the externref module, which has none.
InitRef ==
    /\ InitEngineVars
    /\ feature_compiler
    /\ InitThreadVars
    /\ InitMemoryVars
    /\ heap = <<>>
    /\ created = <<>>
    /\ held = <<>>
    /\ table \in {FuncRefTable, <<>>}
    /\ envs = <<>>
    /\ ref_last = NoRefCall

NextRef ==
    \/ /\ FuncRefTest
       /\ Len(envs) < MaxEnvs
       /\ NewEnv
       /\ UNCHANGED <<engine_vars, thread_vars, memory_vars>>
    \/ FuncRefTest /\ CallRunFuncRef /\ UNCHANGED <<engine_vars, thread_vars, memory_vars>>
    \/ \E fr \in FuncRefInputs(envs) :
            /\ FuncRefTest
            /\ CallSetValue(fr)
            /\ UNCHANGED <<engine_vars, thread_vars, memory_vars>>
    \/ \E name \in ExportNames, way \in Ways :
            /\ ExternRefTest
            /\ CallExtern(name, way)
            /\ UNCHANGED <<engine_vars, thread_vars, memory_vars>>
    \/ \E obj \in HostValues :
            /\ ExternRefTest
            /\ ExternRef_new(obj)
            /\ UNCHANGED <<engine_vars, thread_vars, memory_vars>>
    \/ \E k \in DOMAIN held :
            CloneRef(k) /\ UNCHANGED <<engine_vars, thread_vars, memory_vars>>
    \/ \E k \in DOMAIN held :
            DropRef(k) /\ UNCHANGED <<engine_vars, thread_vars, memory_vars>>
    \/ \E k \in DOMAIN held, T \in ExternTypes :
            Downcast(k, T) /\ UNCHANGED <<engine_vars, thread_vars, memory_vars>>

SpecRef == InitRef /\ [][NextRef]_vars

---------------------------------------------------------------------------
(* Properties. *)

\* The last call was op and it returned (it did not unwind with a panic).
Returned(op) == last.op = op /\ last.res.tag # "Panic"

\* The Engine the last call went to.
LastEngine == engines[handles[last.h]]

\* A message that names the headless limitation.
NamesHeadless(msg) == msg \in {MsgHeadlessExecuteOnly, MsgHeadlessCannotCompile}

\* C1: on one Engine, every two register_signature calls with structurally
\* equal FunctionTypes return the same index, whatever was registered before
\* or between them and through whichever handle.
C1_SameIndex ==
    \A x \in issued, y \in issued :
        (x[1] = y[1] /\ x[2] = y[2]) => x[3] = y[3]

\* A type registered again after another type was registered in between.
C1_Witness ==
    /\ Returned("register_signature")
    /\ last.res.index = 0
    /\ Len(LastEngine.inner.signatures) = 2
    /\ last.h = 2

\* C2: register_signature is total: in every reachable state of the Engine
\* a call returns a signature index.
C2_RegisterTotal ==
    last.op = "register_signature" => last.res.tag = "Index"

\* C3: lookup_signature(i) returns Some(t) exactly when an earlier
\* register_signature(t) on this Engine returned i, two different types never
\* share an index, and it returns None for an index no call has returned.
C3_Lookup ==
    /\ \A x \in issued, y \in issued :
            (x[1] = y[1] /\ x[3] = y[3]) => x[2] = y[2]
    /\ Returned("lookup_signature") =>
            /\ \A t \in FunctionTypes :
                    last.res = Some(t) <=> <<handles[last.h], t, last.arg>> \in issued
            /\ (\A t \in FunctionTypes : <<handles[last.h], t, last.arg>> \notin issued)
                    => last.res = None

\* The second registered type is looked up by its index.
C3_Witness ==
    /\ Returned("lookup_signature")
    /\ last.arg = 1
    /\ last.res.tag = "Some"
    /\ Cardinality(issued) = 2

\* C4: compile on a headless Engine returns a Codegen error naming the
\* headless limitation, for any bytes; no Artifact is returned and no library
\* of a headless Engine was appended by compile.
C4_HeadlessCompile ==
    /\ (last.op = "compile" /\ ~LastEngine.inner.compiler) =>
            /\ last.res.tag = "Err"
            /\ last.res.kind = "Codegen"
            /\ NamesHeadless(last.res.msg)
    /\ \A e \in DOMAIN engines :
            ~engines[e].inner.compiler =>
                \A i \in DOMAIN engines[e].inner.libraries :
                    engines[e].inner.libraries[i].from # "compile"

\* A headless Engine of the build with the compiler feature, holding a
\* deserialized library, is asked to compile a valid module.
C4_Witness ==
    /\ last.op = "compile"
    /\ last.arg = "wasm"
    /\ feature_compiler
    /\ ~LastEngine.inner.compiler
    /\ Len(LastEngine.inner.libraries) = 1

\* C5: validate on a headless Engine returns an error of the Validate kind,
\* for any bytes.
C5_HeadlessValidate ==
    (last.op = "validate" /\ ~LastEngine.inner.compiler) =>
        (last.res.tag = "Err" /\ last.res.kind = "Validate")

\* C6 as stated: on a headless Engine compile and validate fail with one and
\* the same error (kind and message), which names the headless limitation.
C6_SameError ==
    /\ \A x \in headless_errs, y \in headless_errs : x[1] = y[1] => x[3] = y[3]
    /\ \A x \in headless_errs : NamesHeadless(x[3].msg)

\* The error of compile and of validate on a headless Engine, per build.
HeadlessError(op) ==
    CASE op = "compile" /\ feature_compiler   -> Err("Codegen", MsgHeadlessExecuteOnly)
      [] op = "compile" /\ ~feature_compiler  -> Err("Codegen", MsgHeadlessCannotCompile)
      [] op = "validate" /\ feature_compiler  -> Err("Codegen", MsgHeadlessExecuteOnly)
      [] op = "validate" /\ ~feature_compiler -> Err("Validate", MsgNoCompilerSupport)

\* C6 amended: on a headless Engine compile and validate always fail, each
\* with one error for every input, and leave the Engine as it was; the two
\* errors are the same Codegen error in the build with the compiler feature,
\* and a Codegen and a Validate error in the build without it.
C6_HeadlessFails ==
    [][ (last'.op \in {"compile", "validate"}
            /\ ~engines'[handles'[last'.h]].inner.compiler)
        => (last'.res = HeadlessError(last'.op) /\ engines' = engines) ]_vars

\* Both calls failed on one headless Engine of the build without the feature.
C6_Witness ==
    /\ ~feature_compiler
    /\ Cardinality(headless_errs) = 2
    /\ last.op = "validate"
    /\ last.arg = "wasm"

\* What deserializing bytes gives, whatever the Engine.
DeserializeResult(bytes, libraries) ==
    IF IsSharedObject(bytes)
    THEN [tag |-> "Ok", artifact |-> [prefix |-> "", library |-> Len(libraries)]]
    ELSE Err("Deserialize", "not a shared object of this target")

\* C7: deserialize and deserialize_from_file do not depend on a compiler
\* being attached: on a full and on a headless Engine alike, valid bytes give
\* an Artifact and one more library, the last of the list, and anything else
\* gives a Deserialize error.
C7_DeserializeAnyMode ==
    /\ Returned("deserialize") =>
            /\ last.res = DeserializeResult(last.arg, LastEngine.inner.libraries)
            /\ IsSharedObject(last.arg) =>
                    LastEngine.inner.libraries[Len(LastEngine.inner.libraries)]
                        = [from |-> "deserialize", data |-> last.arg]
    /\ Returned("deserialize_from_file") =>
            IF ReadFile(last.arg).tag = "None"
            THEN last.res.tag = "Err" /\ last.res.kind = "Deserialize"
            ELSE last.res = DeserializeResult(ReadFile(last.arg).ty,
                                              LastEngine.inner.libraries)

\* A headless Engine given valid bytes succeeds, a second time.
C7_Witness ==
    /\ Returned("deserialize")
    /\ ~LastEngine.inner.compiler
    /\ last.res.tag = "Ok"
    /\ Len(LastEngine.inner.libraries) = 2

\* The candidates in the order of preference, by executable.
Preference(is_cross_compiling) ==
    IF is_cross_compiling THEN <<"clang-11", "clang-10", "clang">> ELSE <<"gcc">>

\* C8: the linker of a constructed Engine is the first candidate of the
\* applicable list that is on the search path: it is present, every candidate
\* before it is absent, and it is never one of the other list.
C8_FirstPresent ==
    (last.op = "new" /\ last.res.tag = "Engine") =>
        LET pref == Preference(last.arg.triple # Triple_host)
            exe  == executable(engines[handles[last.res.h]].inner.linker)
        IN  \E k \in DOMAIN pref :
                /\ pref[k] = exe
                /\ exe \in last.arg.path
                /\ \A j \in 1 .. (k - 1) : pref[j] \notin last.arg.path

\* Cross-compiling with clang-10, clang and gcc installed picks clang-10.
C8_Witness ==
    /\ last.op = "new"
    /\ last.res.tag = "Engine"
    /\ last.arg.triple = "other"
    /\ last.arg.path = {"clang-10", "clang", "gcc"}
    /\ engines[1].inner.linker = "Clang10"

\* C9: with no candidate of the applicable list present NativeEngine::new
\* panics and constructs nothing, and only then; so every full Engine has a
\* linker, one of its applicable list.
C9_FailFast ==
    /\ last.op = "new" =>
            LET pref == Preference(last.arg.triple # Triple_host)
                none == \A k \in DOMAIN pref : pref[k] \notin last.arg.path
            IN  /\ last.res.tag = "Panic" <=> none
                /\ none => (engines = <<>> /\ handles = <<>>)
    /\ \A e \in DOMAIN engines :
            engines[e].inner.compiler =>
                \E k \in DOMAIN Preference(engines[e].inner.is_cross_compiling) :
                    Preference(engines[e].inner.is_cross_compiling)[k]
                        = executable(engines[e].inner.linker)

\* Cross-compiling with only gcc installed: the construction panics.
C9_Witness ==
    /\ last.op = "new"
    /\ last.res.tag = "Panic"
    /\ last.arg.triple = "other"
    /\ last.arg.path = {"gcc"}
    /\ engines = <<>>

\* C10: the library list of every Engine only grows at its end: each step
\* keeps every entry at its position.
C10_AppendOnly ==
    [][ \A e \in DOMAIN engines :
            /\ e \in DOMAIN engines'
            /\ Len(engines'[e].inner.libraries) >= Len(engines[e].inner.libraries)
            /\ \A i \in DOMAIN engines[e].inner.libraries :
                    engines'[e].inner.libraries[i] = engines[e].inner.libraries[i] ]_vars

\* Two different libraries were appended, and a later call left them there.
C10_Witness ==
    /\ Len(engines) = 1
    /\ Len(engines[1].inner.libraries) = 2
    /\ engines[1].inner.libraries[1].from = "deserialize"
    /\ engines[1].inner.libraries[2].from = "compile"
    /\ last.op = "set_deterministic_prefixer"

\* The prefix the compile pipeline applies for a prefixer that returns.
ExpectedPrefix(prefixer, bytes) ==
    IF prefixer = "Pure" THEN PurePrefix(bytes) ELSE ""

\* The step of the compile pipeline that fails first, the steps taken in the
\* order validate, codegen, prefix, link, load; none when all succeed.
FailingStep(state, binary, ext) ==
    IF ~state.compiler \/ validate_module(state.features, binary).tag # "Ok"
    THEN "validate"
    ELSE IF "codegen" \in ext THEN "codegen"
    ELSE IF state.prefixer = "Panics" THEN "prefix"
    ELSE IF "link" \in ext THEN "link"
    ELSE IF "load" \in ext THEN "load"
    ELSE "none"

\* C18: the compile pipeline validates, compiles, prefixes, links, loads,
\* records the library and wraps the exports, in this order.  Whatever the
\* external compiler, linker and loader do, a compile on an unpoisoned Engine
\* ends at the first step that fails and reports the kind of that step:
\* Validate for an invalid binary (Codegen when the Engine has no compiler),
\* Codegen for the compiler, the panic of the prefixer, Link for the linker,
\* Load for the loader, also when later steps would fail too.  It returns an
\* Artifact exactly when no step fails; then the prefix is the one of the
\* prefixer and the library is appended as the new last entry, to which the
\* Artifact refers.  Every failure leaves the inner state as it was: the
\* library list grows only after the load step succeeded.
C18_Pipeline ==
    [][ (feature_compiler /\ last'.op = "compile"
            /\ ~engines[handles[last'.h]].poisoned) =>
        LET e    == handles[last'.h]
            old  == engines[e].inner
            new  == engines'[e].inner
            res  == last'.res
            step == FailingStep(old, last'.arg, last'.ext)
        IN  /\ res.tag = "Ok" <=> step = "none"
            /\ res.tag = "Panic" <=> step = "prefix"
            /\ res.tag \in {"Ok", "Panic", "Err"}
            /\ res.tag = "Err" =>
                    /\ DOMAIN res = {"tag", "kind", "msg"}
                    /\ res.kind = CASE step = "validate" ->
                                        IF old.compiler THEN "Validate" ELSE "Codegen"
                                   [] step = "codegen" -> "Codegen"
                                   [] step = "link" -> "Link"
                                   [] step = "load" -> "Load"
            /\ res.tag = "Ok" =>
                    /\ res.artifact.prefix = ExpectedPrefix(old.prefixer, last'.arg)
                    /\ new.libraries = Append(old.libraries,
                                              [from |-> "compile", data |-> last'.arg])
                    /\ res.artifact.library = Len(new.libraries)
            /\ res.tag # "Ok" => new = old ]_vars

\* With one library compiled and loaded before, a compile whose linker and
\* loader both fail returned the error of the linker, the earlier step.
C18_Witness ==
    /\ Returned("compile")
    /\ last.ext = {"link", "load"}
    /\ last.res.tag = "Err"
    /\ last.res.kind = "Link"
    /\ Len(engines[1].inner.libraries) = 1
    /\ engines[1].inner.libraries[1].from = "compile"
    /\ engines[1].inner.prefixer = "Pure"

\* C20: the mode of an Engine is fixed at its construction.  In every state
\* the linker is None exactly when no compiler is attached and a headless
\* Engine is not cross-compiling; no step changes the compiler presence, the
\* features, the linker or the cross-compiling flag of an Engine; and
\* NativeEngine::headless() always returns an Engine.
C20_ModeFixed ==
    [][ /\ \A e \in DOMAIN engines' :
                /\ engines'[e].inner.linker = "None" <=> ~engines'[e].inner.compiler
                /\ ~engines'[e].inner.compiler => ~engines'[e].inner.is_cross_compiling
        /\ \A e \in DOMAIN engines :
                /\ e \in DOMAIN engines'
                /\ engines'[e].inner.compiler = engines[e].inner.compiler
                /\ engines'[e].inner.features = engines[e].inner.features
                /\ engines'[e].inner.linker = engines[e].inner.linker
                /\ engines'[e].inner.is_cross_compiling
                        = engines[e].inner.is_cross_compiling
        /\ last'.op = "headless" =>
                /\ last'.res.tag = "Engine"
                /\ Len(engines') = Len(engines) + 1 ]_vars

\* A cross-compiling Engine after a compile that poisoned its lock, and a
\* call through a clone after that.
C20_Witness ==
    /\ Len(engines) = 1
    /\ engines[1].inner.is_cross_compiling
    /\ engines[1].inner.linker = "Clang"
    /\ engines[1].poisoned
    /\ last.op = "deserialize"
    /\ last.h = 2

\* C19: all handles made by clone or cloned() share one inner state, and
\* two separately constructed Engines share none.  At every step: a clone
\* is one more handle to the very Engine state it was cloned from and makes
\* no new state; new and headless make a fresh state (empty registry, no
\* prefixer, no library) that no earlier handle points to and leave every
\* earlier state as it was; a call through a handle changes no state but
\* the one of that handle, and what it did is what every handle of that
\* state now sees: the registered type looks up and re-registers to the
\* returned index, the prefixer set is the one get_prefix uses, the library
\* compile loaded is the last of the list; and lookup_signature through a
\* handle answers from the indices issued through any handle of its state
\* and from no other.
C19_SharedInner ==
    [][ LET h == last'.h
            op == last'.op
            arg == last'.arg
            res == last'.res
        IN  /\ op = "cloned" =>
                    /\ engines' = engines
                    /\ handles' = Append(handles, handles[h])
                    /\ res = [tag |-> "Engine", h |-> Len(handles')]
            /\ (op \in {"new", "headless"} /\ res.tag = "Engine") =>
                    /\ Len(engines') = Len(engines) + 1
                    /\ handles' = Append(handles, Len(engines'))
                    /\ res.h = Len(handles')
                    /\ \A k \in DOMAIN handles : handles[k] # handles'[res.h]
                    /\ \A e \in DOMAIN engines : engines'[e] = engines[e]
                    /\ ~engines'[Len(engines')].poisoned
                    /\ engines'[Len(engines')].inner.signatures = SignatureRegistry_new
                    /\ engines'[Len(engines')].inner.prefixer = "None"
                    /\ engines'[Len(engines')].inner.libraries = <<>>
            /\ (h # 0 /\ op # "cloned") =>
                    /\ handles' = handles
                    /\ \A e \in DOMAIN engines :
                            e # handles[h] => engines'[e] = engines[e]
                    /\ \A k \in DOMAIN handles :
                            k \notin HandlesOf(h) => engines'[handles[k]] = engines[handles[k]]
                    /\ (op = "register_signature" /\ res.tag = "Index") =>
                            \A k \in HandlesOf(h) :
                                LET reg == engines'[handles[k]].inner.signatures
                                IN  /\ SignatureRegistry_lookup(reg, res.index) = Some(arg)
                                    /\ SignatureRegistry_register(reg, arg).index = res.index
                    /\ (op = "set_deterministic_prefixer" /\ res = Ok) =>
                            \A k \in HandlesOf(h) :
                                get_prefix(engines'[handles[k]].inner, "wasm").str
                                    = ExpectedPrefix(arg, "wasm")
                    /\ (op = "compile" /\ res.tag = "Ok") =>
                            \A k \in HandlesOf(h) :
                                LET libs == engines'[handles[k]].inner.libraries
                                IN  /\ libs = Append(engines[handles[k]].inner.libraries,
                                                     [from |-> "compile", data |-> arg])
                                    /\ res.artifact.library = Len(libs)
                                    /\ res.artifact.prefix
                                        = ExpectedPrefix(engines[handles[k]].inner.prefixer, arg)
                    /\ (op = "lookup_signature" /\ res.tag # "Panic") =>
                            \A t \in FunctionTypes :
                                res = Some(t) <=>
                                    \E k \in HandlesOf(h) : <<handles[k], t, arg>> \in issued
      ]_vars

\* Two Engines, the first with a clone: index 0 names a different type in
\* each, the first has a prefixer and a library, the second has neither,
\* and a lookup through a handle of the first answers with its own type.
C19_Witness ==
    /\ Len(engines) = 2
    /\ \E h \in DOMAIN handles, k \in DOMAIN handles, o \in DOMAIN handles :
            /\ h # k /\ handles[h] = 1 /\ handles[k] = 1 /\ handles[o] = 2
            /\ last = Call("lookup_signature", k, 0,
                           SignatureRegistry_lookup(engines[1].inner.signatures, 0))
    /\ \E t \in FunctionTypes, u \in FunctionTypes :
            /\ t # u
            /\ <<1, t, 0>> \in issued /\ <<2, u, 0>> \in issued
            /\ last.res = Some(t)
    /\ engines[1].inner.prefixer = "Pure" /\ engines[2].inner.prefixer = "None"
    /\ Len(engines[1].inner.libraries) = 1 /\ engines[2].inner.libraries = <<>>

\* Thread t is inside the locked part of a call on Engine e.
Holds(t, e) == threads[t].pc = "locked" /\ EngineOf(threads[t].h) = e

\* The step returns (or unwinds) the call of thread t.
Returns(t) == threads[t].pc # "idle" /\ threads'[t].pc = "idle"

\* C11 as stated: each of register_signature, lookup_signature, validate,
\* compile and deserialize* returns only from under the mutex of the inner
\* state, in every build.
C11_EveryCallLocks ==
    [][ \A t \in Threads :
            Returns(t) => <<EngineOf(threads[t].h), t>> \in lock ]_vars

\* C11: register_signature, lookup_signature, validate and deserialize*, and
\* compile in the build with the compiler feature, hold the one mutex of the
\* inner state from before their first access to their return; compile in
\* the build without the feature takes no lock, returns its fixed Codegen
\* error and leaves the inner state alone.  So at most one thread at a time
\* is inside a call on one inner state; the state its guard gave it is
\* still the state when it acts (no other call came in between); the inner
\* state (the library list with it) changes only in the step of the thread
\* that holds the lock, and that thread lets go of the lock as it returns.
C11_LockHeld ==
    [][ /\ \A x \in lock', y \in lock' : x[1] = y[1] => x = y
        /\ \A t \in Threads :
                threads'[t].pc = "locked" =>
                    /\ <<EngineOf(threads'[t].h), t>> \in lock'
                    /\ threads'[t].seen = <<engines'[EngineOf(threads'[t].h)]>>
        /\ \A t \in Threads :
                Returns(t) =>
                    LET e == EngineOf(threads[t].h) IN
                    /\ last'.op = threads[t].op
                    /\ last'.h = threads[t].h
                    /\ <<e, t>> \notin lock'
                    /\ \/ /\ <<e, t>> \in lock
                          /\ threads[t].seen = <<engines[e]>>
                       \/ /\ threads[t].op = "compile"
                          /\ ~feature_compiler
                          /\ last'.res = Err("Codegen", MsgHeadlessCannotCompile)
                          /\ engines' = engines
                          /\ lock' = lock
        /\ \A e \in DOMAIN engines :
                engines'[e] # engines[e] =>
                    \E t \in Threads :
                        /\ Holds(t, e)
                        /\ <<e, t>> \in lock
                        /\ Returns(t)
      ]_vars

\* One thread is inside compile on the locked state, which already holds a
\* library of an earlier call, while the other thread has called
\* register_signature through the clone and waits for the mutex.
C11_Witness ==
    /\ Holds("t1", 1)
    /\ threads["t1"].op = "compile"
    /\ feature_compiler
    /\ engines[1].inner.compiler
    /\ lock = {<<1, "t1">>}
    /\ threads["t2"].pc = "called"
    /\ threads["t2"].op = "register_signature"
    /\ Len(engines[1].inner.libraries) = 1
    /\ Cardinality(issued) = 1

\* C12: atomically() gives a view over exactly the region of the view it
\* was called on: the same pointer, the same element count, the atomic
\* element type of the Atomic impl, which has the same bit width, so every
\* element lies at the same address with the same size; and the call
\* leaves the view it was called on as it was, at every step.
C12_SameRegion ==
    [][ /\ view' = view
        /\ \A t \in Threads :
                atomic_views'[t] # NoView =>
                    LET a == atomic_views'[t] IN
                    /\ a.ptr = view.ptr
                    /\ a.length = view.length
                    /\ a.atomicity = "Atomically"
                    /\ view.atomicity = "NonAtomically"
                    /\ a.elem = Atomic(view.elem)
                    /\ Bits(a.elem) = Bits(view.elem)
                    /\ \A index \in 0 .. view.length - 1 :
                            /\ Deref(a, index) = view.ptr + index * (Bits(view.elem) \div 8)
                            /\ Deref(a, index) + SizeOf(a.elem) <= MemBytes
      ]_vars

\* Both threads hold the atomic form of a view of two f32 elements that
\* starts at address 8: AtomicU32 elements over the same bytes.
C12_Witness ==
    /\ view = MemoryView_new(8, 2, "f32")
    /\ \A t \in Threads :
            /\ atomic_views[t].elem = "AtomicU32"
            /\ atomic_views[t].ptr = 8
            /\ atomic_views[t].length = 2

\* The value an element has n increments after a store of all zeros or of
\* all ones (n below 256), written down byte by byte.
Expected(kind, n, size) ==
    [k \in 1 .. size |->
        CASE kind = "zero"  -> (IF k = 1 THEN n ELSE 0)
          [] kind = "ones"  -> (IF n = 0 THEN 255 ELSE IF k = 1 THEN n - 1 ELSE 0)]

\* The bytes of element index of the region of the view.
ElementAt(mem, index) ==
    ReadElem(mem, view.ptr + index * (Bits(view.elem) \div 8), Bits(view.elem) \div 8)

\* C13: atomic accesses of several threads, each through its own atomic
\* view of the one region, lose no update: at every step every element
\* holds the value last written to it plus the number of fetch_adds made
\* on it since, wrapped at the element width, whichever threads made them
\* in whichever order; a fetch_add returns the value before it and adds one;
\* a store leaves its value; and a load returns that sum, which is the
\* written value itself when no fetch_add came after the write.  A set
\* through the non-atomic view is a write where it reaches the memory.
C13_AtomicSum ==
    [][ LET size == Bits(view.elem) \div 8
            i == mem_last'.index
        IN  /\ \A index \in 0 .. view.length - 1 :
                    ElementAt(memory', index) = Expected(stored'[index], incs'[index], size)
            /\ \A a \in DOMAIN memory :
                    (a < view.ptr \/ a >= view.ptr + view.length * size) =>
                        memory'[a] = memory[a]
            /\ mem_last'.op = "load" =>
                    /\ mem_last'.val = Expected(stored'[i], incs'[i], size)
                    /\ incs'[i] = 0 => mem_last'.val = ValueOf(stored'[i], size)
                    /\ memory' = memory
            /\ mem_last'.op = "store" =>
                    /\ ElementAt(memory', i) = mem_last'.val
                    /\ incs'[i] = 0
            /\ mem_last'.op = "fetch_add" =>
                    /\ incs' = [incs EXCEPT ![i] = @ + 1]
                    /\ stored' = stored
                    /\ mem_last'.val = Expected(stored[i], incs[i], size)
      ]_vars

\* After a store of all ones to the second element of a view of i32 and
\* two fetch_adds on it, a load by the second thread returns 1: the sum
\* wrapped at 32 bits; the first element, never written, was incremented
\* twice and holds 2.
C13_Witness ==
    /\ view.elem = "i32"
    /\ view.length = 2
    /\ mem_last = [t |-> "t2", op |-> "load", index |-> 1, val |-> <<1, 0, 0, 0>>]
    /\ stored[1] = "ones"
    /\ incs[1] = 2
    /\ stored[0] = "zero"
    /\ incs[0] = 2
    /\ ElementAt(memory, 0) = <<2, 0, 0, 0>>
    /\ pending = {}

\* The ExternRef in what a call of an export returned.
ReturnedRef(call) == IF call.arg[2] = "native" THEN call.res ELSE call.res[1]

\* C14: a null reference passed from the guest into a host identity import
\* and returned comes back null.  The export run of the funcref module
\* calls the import with the null word: the import is given one FuncRef for
\* which is_none holds, and the caller gets one FuncRef for which is_none
\* holds, whatever functions the store and the table hold.  The exports run
\* (over the dynamically typed import) and run_native (over the natively
\* typed one) of the externref module, called through Function::call or
\* through NativeFunc::call, give the import an ExternRef for which is_null
\* holds and return one for which is_null holds; no value is made, counted
\* or dropped on the way.
C14_NullPreserved ==
    [][ /\ ref_last'.op = "run_func_ref" =>
            /\ Len(ref_last'.res) = 1
            /\ ref_last'.res[1].tag = "FuncRef"
            /\ is_none(ref_last'.res[1])
            /\ Len(ref_last'.invoked) = 1
            /\ ref_last'.invoked[1].func.name = "func_ref_identity"
            /\ Len(ref_last'.invoked[1].args) = 1
            /\ is_none(ref_last'.invoked[1].args[1])
            /\ UNCHANGED <<table, envs>>
        /\ (ref_last'.op = "call_extern" /\ ref_last'.arg[1] \in {"run", "run_native"}) =>
            /\ ReturnedRef(ref_last').tag = "ExternRef"
            /\ is_null(ReturnedRef(ref_last'))
            /\ Len(ref_last'.invoked) = 1
            /\ ref_last'.invoked[1].func.name =
                    (IF ref_last'.arg[1] = "run"
                     THEN "extern_ref_identity" ELSE "extern_ref_identity_native")
            /\ Len(ref_last'.invoked[1].args) = 1
            /\ is_null(ref_last'.invoked[1].args[1])
            /\ held' = Append(held, 0)
            /\ UNCHANGED <<heap, created>>
      ]_vars

\* The export run returned a null funcref while the store holds two
\* func_to_call and slot 0 of the table refers to the second.
C14_Witness ==
    /\ ref_last.op = "run_func_ref"
    /\ is_none(ref_last.res[1])
    /\ Len(envs) = 2
    /\ FuncRef_from_raw(envs, table[1]) = FuncRef(Function("func_to_call", 2))

\* C15: call_set_value stores the funcref it is given in slot 0 of the
\* table and calls through that slot.  Given a reference to a function,
\* the call invokes that function and nothing else, once: the flag of the
\* Env that function was made over is set after the call, the flag of
\* every other Env is as before, and the result is the one value the
\* function returned.  The slot refers to the function given; the other
\* slot is as before.
C15_IndirectCall ==
    [][ (ref_last'.op = "call_set_value" /\ ~is_none(ref_last'.arg[1])) =>
            LET f == ref_last'.arg[1].func IN
            /\ ref_last'.invoked = <<[func |-> f, args |-> <<>>]>>
            /\ ref_last'.res = <<Value_I32(func_to_call(envs[f.env]).ret)>>
            /\ DOMAIN envs' = DOMAIN envs
            /\ envs'[f.env]
            /\ \A e \in DOMAIN envs : e # f.env => envs'[e] = envs[e]
            /\ table'[1] # 0
            /\ StoreFuncs(envs)[table'[1]] = f
            /\ table'[2] = table[2]
            /\ UNCHANGED <<heap, created, held>>
      ]_vars

\* call_set_value was given the func_to_call of the second Env while the
\* flag of the first was not set: the second flag is set, the first is not,
\* and the result is 343.
C15_Witness ==
    /\ ref_last.op = "call_set_value"
    /\ ref_last.arg = <<FuncRef(Function("func_to_call", 2))>>
    /\ ref_last.res = <<Value_I32(343)>>
    /\ ref_last.invoked = <<[func |-> Function("func_to_call", 2), args |-> <<>>]>>
    /\ envs = <<FALSE, TRUE>>
    /\ table[1] = 5

\* C16: downcast<T> on an ExternRef gives a reference to the wrapped value,
\* the very value the ExternRef was made from, exactly when the reference
\* is not null and the type the value was wrapped with is T; in every
\* other case, null included, it gives the no-match result; it gives
\* nothing else, and it changes neither the handle nor the value nor the
\* reference count.
C16_Downcast ==
    [][ ref_last'.op = "downcast" =>
            LET id == held[ref_last'.arg[1]]
                T == ref_last'.arg[2]
                res == ref_last'.res
            IN  /\ UNCHANGED <<heap, created, held>>
                /\ res.tag \in {"Ref", "None"}
                /\ res.tag = "Ref" <=> (id # 0 /\ created[id].type = T)
                /\ res.tag = "Ref" =>
                        /\ res.id = id
                        /\ res.value = created[id].value
      ]_vars

\* A downcast to usize of a reference to a map: no match, and the map is
\* still there.
C16_Witness ==
    /\ ref_last.op = "downcast"
    /\ ref_last.arg[2] = "usize"
    /\ ref_last.res = None
    /\ held[ref_last.arg[1]] # 0
    /\ created[held[ref_last.arg[1]]].type = "HashMap<String, String>"
    /\ heap[held[ref_last.arg[1]]].value = HelloWorld
    /\ \E k \in DOMAIN held : held[k] # 0 /\ created[held[k]].type = "usize"

\* C17: an ExternRef made in the import get_new_extern_ref or
\* get_new_extern_ref_native and returned through the export get_hashmap or
\* get_hashmap_native, called in either way, is not null and refers to the
\* very value the import wrapped in this call: one value was made, none
\* copied, and a downcast of the reference to the type of that value gives
\* that value.  A later downcast of a handle that came out of these exports
\* to the type its value was wrapped with gives the value wrapped.  While
\* the host holds any handle to a value the value is alive and is the value
\* wrapped, with one strong reference per handle, whatever other handles
\* were cloned and dropped.
C17_RoundTrip ==
    [][ /\ (ref_last'.op = "call_extern"
                /\ ref_last'.arg[1] \in {"get_hashmap", "get_hashmap_native"}) =>
                LET er == ReturnedRef(ref_last') IN
                /\ er.tag = "ExternRef"
                /\ ~is_null(er)
                /\ Len(created') = Len(created) + 1
                /\ Len(heap') = Len(heap) + 1
                /\ er.id = Len(created')
                /\ created'[er.id].by = ref_last'.arg[1]
                /\ held' = Append(held, er.id)
                /\ downcast(heap', er, created'[er.id].type)
                        = [tag |-> "Ref", id |-> er.id, value |-> created'[er.id].value]
                /\ Len(ref_last'.invoked) = 1
                /\ ref_last'.invoked[1].func.name = ImportOf(ref_last'.arg[1])
        /\ ref_last'.op = "downcast" =>
                LET id == held[ref_last'.arg[1]] IN
                (/\ id # 0
                 /\ created[id].by \in {"get_hashmap", "get_hashmap_native"}
                 /\ ref_last'.arg[2] = created[id].type) =>
                    /\ ref_last'.res.tag = "Ref"
                    /\ ref_last'.res.id = id
                    /\ ref_last'.res.value = created[id].value
        /\ \A k \in DOMAIN held' :
                held'[k] # 0 =>
                    LET id == held'[k] IN
                    /\ heap'[id].strong >= 1
                    /\ heap'[id].strong = Cardinality({j \in DOMAIN held' : held'[j] = id})
                    /\ heap'[id].type = created'[id].type
                    /\ heap'[id].value = created'[id].value
      ]_vars

\* The map came out of get_hashmap_native through NativeFunc::call, was
\* cloned, and one of the two handles was dropped; the downcast of the one
\* left gives the map.  Another value has been wrapped and dropped.
C17_Witness ==
    /\ ref_last.op = "downcast"
    /\ ref_last.res.tag = "Ref"
    /\ created[ref_last.res.id].by = "get_hashmap_native"
    /\ ref_last.res.value = HelloWorld
    /\ heap[ref_last.res.id].strong = 1
    /\ Len(held) = 1
    /\ Len(heap) = 2
    /\ \E id \in DOMAIN heap : heap[id].strong = 0

====
